---- MODULE Spec2Model ----
(***************************************************************************)
(* Session-authentication core of the chat backend: login, refresh-token   *)
(* rotation with reuse detection, logout and the per-request guard, as     *)
(* written in the Hono handlers of the backend guide.                      *)
(*                                                                         *)
(* Every handler is an async function: between two awaits it runs without  *)
(* interruption, at an await that touches the database or the clock other  *)
(* requests may run.  One action models one such uninterrupted stretch.    *)
(*                                                                         *)
(* The self-contained example server that closes the guide has its own     *)
(* guard and keeps its refresh tokens in a Set; it is a second             *)
(* specification, SpecExample, over the same variables.  The login route   *)
(* of apps/backend (SpecBackend) and the in-memory rate limiter            *)
(* (SpecLimiter) are specifications of their own as well; SpecDevices and  *)
(* SpecUsers start the handlers of the guide with rows in the table.       *)
(***************************************************************************)
EXTENDS Integers, Sequences, FiniteSets, TLC

\* ---------------------------------------------------------------- bounds
NumProcs == 2
MaxRequests == 3
MaxTicks == 1
\* The largest max a rate limiter is built with.
MaxLimit == 2

\* ------------------------------------------------------ program constants
AccessTtl == 60 * 15
RefreshTtl == 60 * 60 * 24 * 7
StartTime == 1000

Procs == 1..NumProcs
NULL == -1
NoRecord == 0

\* process.env.JWT_SECRET and the values process.env.JWT_REFRESH_SECRET can
\* take: the environment schema asks for two strings and nothing more, so
\* the refresh secret is either another string or the same one.
JWT_SECRET == "secret_a"
SecretValues == {"secret_a", "secret_b"}

VARIABLES
  now,            \* Date.now() in seconds
  ticks,          \* number of clock steps taken
  started,        \* number of requests received
  refreshSecret,  \* the secret of refresh tokens: process.env.JWT_REFRESH_SECRET
  users,          \* db.user: the ids of the registered users (no handler writes it)
  refreshTokens,  \* the Set of the self-contained example server (empty elsewhere)
  sessions,       \* db.refreshToken: sequence of rows, id = index
  procs,          \* one record per request slot: position and locals
  resp,           \* the response sent last
  rotated,        \* per refresh() that returned a pair: its token and row
  revokedBy,      \* refresh tokens whose row a logout has revoked
  flagged,        \* refresh tokens that were answered with ReuseDetected
  store,          \* the Map of the rate limiter: key -> {count, resetAt}
  limiter,        \* the options the rate limiter was built with
  hits,           \* per key: requests passed on since its record was created
  lresp           \* the last decision of the rate limiter

limVars == <<store, limiter, hits, lresp>>

vars == <<now, ticks, started, refreshSecret, users, refreshTokens, sessions,
          procs, resp, rotated, revokedBy, flagged, limVars>>

\* ----------------------------------------------------------------- tokens
\* A JWT is determined by its payload and the signing secret (HS256 is a
\* deterministic MAC): two sign() calls with equal payload and secret give
\* the same string.
NoToken == [sub |-> 0, typ |-> "none", iat |-> 0, exp |-> 0, key |-> "none"]

sign(sub, typ, iat, exp, secret) ==
  [sub |-> sub, typ |-> typ, iat |-> iat, exp |-> exp, key |-> secret]

signAccess(u, n) == sign(u, "access", n, n + AccessTtl, JWT_SECRET)

signRefresh(u, n, secret) == sign(u, "refresh", n, n + RefreshTtl, secret)

\* A slip: verify without the check of exp.
verifyNoExp(t, secret, n) ==
  IF t.typ = "none" THEN "malformed"
  ELSE IF n < t.iat THEN "issued_in_future"
  ELSE IF t.key # secret THEN "signature"
  ELSE "ok"

\* hono/jwt verify: structure, then exp, then iat, then the signature.
verify(t, secret, n) ==
  IF t.typ = "none" THEN "malformed"
  ELSE IF t.exp <= n THEN "expired"
  ELSE IF n < t.iat THEN "issued_in_future"
  ELSE IF t.key # secret THEN "signature"
  ELSE "ok"

\* bcrypt.hash draws a fresh salt; bcrypt.compare recomputes the digest of
\* the candidate under the salt of the stored hash.
bcryptHash(t, salt) == [tok |-> t, salt |-> salt]

bcryptCompare(t, h) == h.tok = t

\* --------------------------------------------------------- session store
\* One row of db.refreshToken.  via is not a column: it records which
\* handler inserted the row.
Row(u, h, e, via) ==
  [userId |-> u, tokenHash |-> h, expiresAt |-> e, revokedAt |-> NULL, via |-> via]

\* db.refreshToken.create: the row is appended, its id is its position.
create(rows, u, t, n, via) ==
  Append(rows, Row(u, bcryptHash(t, Len(rows) + 1), n + RefreshTtl, via))

\* A slip: update() in place of updateMany(), only one row of the user is
\* revoked.
updateManyFirst(rows, u, n) ==
  [i \in DOMAIN rows |->
     IF rows[i].userId = u /\ \A j \in 1..(i - 1) : rows[j].userId # u
     THEN [rows[i] EXCEPT !.revokedAt = n] ELSE rows[i]]

\* db.refreshToken.updateMany({where: {userId}, data: {revokedAt: new Date()}})
updateMany(rows, u, n) ==
  [i \in DOMAIN rows |->
     IF rows[i].userId = u THEN [rows[i] EXCEPT !.revokedAt = n] ELSE rows[i]]

\* A slip: a write that flips the mark, so that a second revocation of a
\* row clears it.
updateToggle(rows, id, n) ==
  [rows EXCEPT ![id].revokedAt = IF rows[id].revokedAt = NULL THEN n ELSE NULL]

\* db.refreshToken.update({where: {id}, data: {revokedAt: new Date()}})
update(rows, id, n) == [rows EXCEPT ![id].revokedAt = n]

\* findMany of the refresh handler: rows of the user, not expired, not revoked.
findManyActive(rows, u, n) ==
  {i \in DOMAIN rows :
     /\ rows[i].userId = u
     /\ rows[i].expiresAt > n
     /\ rows[i].revokedAt = NULL}

\* A slip: the query of the logout handler without its userId filter.
findManyUnrevokedAnyUser(rows, u) ==
  {i \in DOMAIN rows : rows[i].revokedAt = NULL}

\* findMany of the logout handler: rows of the user that are not revoked.
findManyUnrevoked(rows, u) ==
  {i \in DOMAIN rows : rows[i].userId = u /\ rows[i].revokedAt = NULL}

\* The compare loop: the rows of the result set whose hash the token matches.
\* The handler takes the first one in result order; findMany has no orderBy,
\* so any of them can be first.
matching(rows, ids, t) == {i \in ids : bcryptCompare(t, rows[i].tokenHash)}

\* A row is active iff it is not revoked and not expired.
IsActive(r, n) == r.revokedAt = NULL /\ n < r.expiresAt

ActiveIn(rows, u, n) ==
  {i \in DOMAIN rows : rows[i].userId = u /\ IsActive(rows[i], n)}

ActiveOf(u) == ActiveIn(sessions, u, now)

\* -------------------------------------------------------------- processes
\* pc: position in the handler; op: the handler; tok: the refresh token
\* presented; uid: payload.sub / c.get("userId"); rec: tokenRecord; newA,
\* newR: the pair signed.  prior tells whether a refresh() with the same
\* string had already returned a pair when this request arrived.  last and
\* len belong to no local: for a logout they keep the body token of the
\* logout that was answered last before this one arrived (NoToken when the
\* answer sent last was not that of a logout with a token) and the number of
\* rows at that moment.  cred tells, for a login, whether the password
\* presented is the one of the account.
IdleProc ==
  [pc |-> "idle", op |-> "none", tok |-> NoToken, uid |-> 0, rec |-> NoRecord,
   newA |-> NoToken, newR |-> NoToken, prior |-> FALSE, last |-> NoToken, len |-> 0,
   cred |-> FALSE]

\* A response: the handler, the token it was given (refresh token of
\* /auth/refresh and of the logout body, bearer token of the guard), the
\* outcome, the identity the guard set, the pair in the body.
NoResp ==
  [op |-> "none", tok |-> NoToken, res |-> "none", uid |-> 0,
   newA |-> NoToken, newR |-> NoToken, prior |-> FALSE]

Answer(op, tok, res) == [NoResp EXCEPT !.op = op, !.tok = tok, !.res = res]

\* A refresh token that verifies but was never issued: signed with a leaked
\* key, or the token of a row that housekeeping has pruned.
Forged == {signRefresh(u, StartTime - 1, refreshSecret) : u \in users}

\* The tokens that responses have handed out.  A pair is returned in the
\* step that inserts the row of its refresh token, and both tokens of a pair
\* carry the same sub and iat, so the rows tell which pairs were returned.
handed ==
  UNION {{sessions[i].tokenHash.tok,
          signAccess(sessions[i].userId, sessions[i].tokenHash.tok.iat)} :
         i \in DOMAIN sessions}

\* What a client can put into a request.
Presentable == handed \cup Forged

\* A request is served in the lowest slot that is not busy (the slots are
\* interchangeable).
Free(p) ==
  /\ procs[p].pc = "idle"
  /\ \A q \in 1..(p - 1) : procs[q].pc # "idle"
  /\ started < MaxRequests
  /\ started' = started + 1

\* ----------------------------------------------------------- rate limiter
\* The keys of the limiter (keyGenerator: the x-forwarded-for header).
Keys == {"ip_a", "ip_b"}

\* The windows a limiter is built with, in seconds: 60_000 ms (the default)
\* and 15 * 60_000 ms (the limiter of the auth routes).
WindowValues == {60, 15 * 60}

\* store.get(key) of a key that has no entry.
NoRate == [count |-> 0, resetAt |-> NULL]

\* No decision yet.
NoDecision == [key |-> "none", status |-> 0, remaining |-> 0]

\* The limiter has served no request; windowMs and max are the defaults.
LimiterIdle ==
  /\ store = [k \in Keys |-> NoRate]
  /\ limiter = [windowMs |-> 60, max |-> 60]
  /\ hits = [k \in Keys |-> 0]
  /\ lresp = NoDecision

Init ==
  /\ now = StartTime
  /\ ticks = 0
  /\ started = 0
  /\ refreshSecret \in SecretValues
  /\ users = {1}
  /\ refreshTokens = {}
  /\ sessions = << >>
  /\ procs = [p \in Procs |-> IdleProc]
  /\ resp = NoResp
  /\ rotated = {}
  /\ revokedBy = {}
  /\ flagged = {}
  /\ LimiterIdle

\* ------------------------------------------------------------------ login
\* POST /auth/login up to the signing of the pair.
LoginIssue(p, u, valid) ==
  /\ Free(p)
  /\ u \in users
  /\ IF valid
     THEN /\ procs' = [procs EXCEPT ![p] =
                [IdleProc EXCEPT !.pc = "l_store", !.op = "login", !.uid = u,
                                 !.cred = TRUE,
                                 !.newA = signAccess(u, now),
                                 !.newR = signRefresh(u, now, refreshSecret)]]
          /\ resp' = resp
     ELSE /\ procs' = procs
          /\ resp' = Answer("login", NoToken, "InvalidCredentials")
  /\ UNCHANGED <<limVars, now, ticks, refreshSecret, users, refreshTokens, sessions, rotated,
                 revokedBy, flagged>>

\* POST /auth/login: store the hash, answer with the pair.
LoginStore(p) ==
  /\ procs[p].pc = "l_store"
  /\ sessions' = create(sessions, procs[p].uid, procs[p].newR, now, "login")
  /\ resp' = [Answer("login", NoToken, "ok") EXCEPT
                !.uid = procs[p].uid, !.newA = procs[p].newA, !.newR = procs[p].newR]
  /\ procs' = [procs EXCEPT ![p] = IdleProc]
  /\ UNCHANGED <<limVars, now, ticks, started, refreshSecret, users, refreshTokens, rotated,
                 revokedBy, flagged>>

\* ---------------------------------------------------------------- refresh
\* A slip: the handler without its type check (step 2).
RefreshVerifyNoTypeCheck(p, t) ==
  /\ Free(p)
  /\ t \in Presentable
  /\ IF verify(t, refreshSecret, now) # "ok"
     THEN /\ procs' = procs
          /\ resp' = [Answer("refresh", t, "InvalidToken") EXCEPT !.prior = (t \in {x.tok : x \in rotated})]
     ELSE /\ procs' = [procs EXCEPT ![p] =
                [IdleProc EXCEPT !.pc = "r_find", !.op = "refresh", !.tok = t,
                                 !.uid = t.sub,
                                 !.prior = (t \in {x.tok : x \in rotated})]]
          /\ resp' = resp
  /\ UNCHANGED <<limVars, now, ticks, refreshSecret, users, refreshTokens, sessions, rotated,
                 revokedBy, flagged>>

\* POST /auth/refresh, steps 1 and 2: verify, then the type check.
RefreshVerify(p, t) ==
  /\ Free(p)
  /\ t \in Presentable
  /\ LET prior == t \in {x.tok : x \in rotated}
     IN IF verify(t, refreshSecret, now) # "ok"
        THEN /\ procs' = procs
             /\ resp' = [Answer("refresh", t, "InvalidToken") EXCEPT !.prior = prior]
        ELSE IF t.typ # "refresh"
        THEN /\ procs' = procs
             /\ resp' = [Answer("refresh", t, "TokenTypeMismatch") EXCEPT !.prior = prior]
        ELSE /\ procs' = [procs EXCEPT ![p] =
                   [IdleProc EXCEPT !.pc = "r_find", !.op = "refresh", !.tok = t,
                                    !.uid = t.sub, !.prior = prior]]
             /\ resp' = resp
  /\ UNCHANGED <<limVars, now, ticks, refreshSecret, users, refreshTokens, sessions, rotated,
                 revokedBy, flagged>>

\* Steps 3 and 4: read the user's active rows, look for the row of the token.
RefreshFind(p) ==
  /\ procs[p].pc = "r_find"
  /\ LET m == matching(sessions, findManyActive(sessions, procs[p].uid, now), procs[p].tok)
     IN \E r \in (IF m = {} THEN {NoRecord} ELSE m) :
          procs' = [procs EXCEPT ![p].pc = "r_revoke", ![p].rec = r]
  /\ UNCHANGED <<limVars, now, ticks, started, refreshSecret, users, refreshTokens, sessions,
                 resp, rotated,
                 revokedBy, flagged>>

\* A slip: the matched row is not consumed before the new pair is issued.
RefreshRevokeSkips(p) ==
  /\ procs[p].pc = "r_revoke"
  /\ IF procs[p].rec = NoRecord
     THEN /\ sessions' = updateMany(sessions, procs[p].uid, now)
          /\ resp' = [Answer("refresh", procs[p].tok, "ReuseDetected") EXCEPT
                        !.prior = procs[p].prior]
          /\ procs' = [procs EXCEPT ![p] = IdleProc]
          /\ flagged' = flagged \cup {procs[p].tok}
     ELSE /\ sessions' = sessions
          /\ procs' = [procs EXCEPT ![p].pc = "r_issue"]
          /\ UNCHANGED <<limVars, resp, flagged>>
  /\ UNCHANGED <<limVars, now, ticks, started, refreshSecret, users, refreshTokens, rotated,
                 revokedBy>>

\* No row found: revoke every row of the user and answer 401 (reuse).
\* Row found (step 5): revoke it.
RefreshRevoke(p) ==
  /\ procs[p].pc = "r_revoke"
  /\ IF procs[p].rec = NoRecord
     THEN /\ sessions' = updateMany(sessions, procs[p].uid, now)
          /\ resp' = [Answer("refresh", procs[p].tok, "ReuseDetected") EXCEPT
                        !.prior = procs[p].prior]
          /\ procs' = [procs EXCEPT ![p] = IdleProc]
          /\ flagged' = flagged \cup {procs[p].tok}
     ELSE /\ sessions' = update(sessions, procs[p].rec, now)
          /\ procs' = [procs EXCEPT ![p].pc = "r_issue"]
          /\ UNCHANGED <<limVars, resp, flagged>>
  /\ UNCHANGED <<limVars, now, ticks, started, refreshSecret, users, refreshTokens, rotated,
                 revokedBy>>

\* Steps 6 and 7: load the user, sign the new pair.
RefreshIssue(p) ==
  /\ procs[p].pc = "r_issue"
  /\ IF procs[p].uid \in users
     THEN /\ procs' = [procs EXCEPT ![p].pc = "r_store",
                          ![p].newA = signAccess(procs[p].uid, now),
                          ![p].newR = signRefresh(procs[p].uid, now, refreshSecret)]
          /\ resp' = resp
     ELSE /\ procs' = [procs EXCEPT ![p] = IdleProc]
          /\ resp' = [Answer("refresh", procs[p].tok, "UserNotFound") EXCEPT
                        !.prior = procs[p].prior]
  /\ UNCHANGED <<limVars, now, ticks, started, refreshSecret, users, refreshTokens, sessions,
                 rotated,
                 revokedBy, flagged>>

\* Step 8: store the hash of the new refresh token, answer with the pair.
RefreshStore(p) ==
  /\ procs[p].pc = "r_store"
  /\ sessions' = create(sessions, procs[p].uid, procs[p].newR, now, "refresh")
  /\ resp' = [Answer("refresh", procs[p].tok, "ok") EXCEPT
                !.uid = procs[p].uid, !.newA = procs[p].newA,
                !.newR = procs[p].newR, !.prior = procs[p].prior]
  /\ procs' = [procs EXCEPT ![p] = IdleProc]
  /\ rotated' = rotated \cup {[tok |-> procs[p].tok, rec |-> procs[p].rec]}
  /\ UNCHANGED <<limVars, now, ticks, started, refreshSecret, users, refreshTokens, revokedBy,
                 flagged>>

\* A slip: the failure of the write is swallowed and the pair is returned.
RefreshStoreSwallows(p) ==
  /\ procs[p].pc = "r_store"
  /\ resp' = [Answer("refresh", procs[p].tok, "ok") EXCEPT
                !.uid = procs[p].uid, !.newA = procs[p].newA,
                !.newR = procs[p].newR, !.prior = procs[p].prior]
  /\ procs' = [procs EXCEPT ![p] = IdleProc]
  /\ UNCHANGED <<limVars, now, ticks, started, refreshSecret, users, refreshTokens, sessions,
                 rotated,
                 revokedBy, flagged>>

\* Step 8 when db.refreshToken.create rejects (the database is unreachable):
\* the handler has no catch, the error reaches app.onError, which answers
\* 500 without a body of tokens.  No row is written.
RefreshStoreThrows(p) ==
  /\ procs[p].pc = "r_store"
  /\ resp' = [Answer("refresh", procs[p].tok, "InternalError") EXCEPT
                !.prior = procs[p].prior]
  /\ procs' = [procs EXCEPT ![p] = IdleProc]
  /\ UNCHANGED <<limVars, now, ticks, started, refreshSecret, users, refreshTokens, sessions,
                 rotated,
                 revokedBy, flagged>>

\* ----------------------------------------------------------- the guard
\* What the authenticate middleware makes of a bearer token.
authenticate(t, n) ==
  LET v == verify(t, JWT_SECRET, n)
  IN IF v = "ok" THEN "Identity"
     ELSE IF v = "expired" THEN "TokenExpired"
     ELSE "InvalidToken"

\* A slip: a guard that looks the user's sessions up and accepts a token
\* only while one of them is active.
AuthenticateWithLookup(p, t) ==
  /\ Free(p)
  /\ t \in Presentable
  /\ LET a == IF authenticate(t, now) = "Identity" /\ ActiveOf(t.sub) = {}
              THEN "InvalidToken" ELSE authenticate(t, now)
     IN resp' = [Answer("auth", t, a) EXCEPT
                   !.uid = IF a = "Identity" THEN t.sub ELSE 0]
  /\ UNCHANGED <<limVars, now, ticks, refreshSecret, users, refreshTokens, sessions, procs,
                 rotated, revokedBy, flagged>>

\* A request to a protected route: the middleware alone.
Authenticate(p, t) ==
  /\ Free(p)
  /\ t \in Presentable
  /\ resp' = [Answer("auth", t, authenticate(t, now)) EXCEPT
                !.uid = IF authenticate(t, now) = "Identity" THEN t.sub ELSE 0]
  /\ UNCHANGED <<limVars, now, ticks, refreshSecret, users, refreshTokens, sessions, procs,
                 rotated, revokedBy, flagged>>

\* ----------------------------------------------------------------- logout
\* POST /auth/logout: the middleware.
LogoutAuth(p, t) ==
  /\ Free(p)
  /\ t \in Presentable
  /\ IF authenticate(t, now) = "Identity"
     THEN /\ procs' = [procs EXCEPT ![p] =
                [IdleProc EXCEPT !.pc = "o_body", !.op = "logout", !.uid = t.sub,
                                 !.last = IF resp.op = "logout" /\ resp.res = "LoggedOut"
                                          THEN resp.tok ELSE NoToken,
                                 !.len = Len(sessions)]]
          /\ resp' = resp
     ELSE /\ procs' = procs
          /\ resp' = Answer("logout", t, authenticate(t, now))
  /\ UNCHANGED <<limVars, now, ticks, refreshSecret, users, refreshTokens, sessions, rotated,
                 revokedBy, flagged>>

\* A slip: a logout that tells the caller that the token matched no row.
LogoutFindTells(p, rt) ==
  /\ procs[p].pc = "o_body"
  /\ rt \in Presentable
  /\ LET m == matching(sessions, findManyUnrevoked(sessions, procs[p].uid), rt)
     IN IF m = {}
        THEN /\ procs' = [procs EXCEPT ![p] = IdleProc]
             /\ resp' = [Answer("logout", rt, "NoSuchSession") EXCEPT !.uid = procs[p].uid]
        ELSE /\ \E r \in m :
                  procs' = [procs EXCEPT ![p].pc = "o_update", ![p].rec = r, ![p].tok = rt]
             /\ resp' = resp
  /\ UNCHANGED <<limVars, now, ticks, started, refreshSecret, users, refreshTokens, sessions,
                 rotated, revokedBy, flagged>>

\* The body carries a refresh token: look for its row among the unrevoked
\* rows of the user; without a match the answer follows at once.
LogoutFind(p, rt) ==
  /\ procs[p].pc = "o_body"
  /\ rt \in Presentable
  /\ LET m == matching(sessions, findManyUnrevoked(sessions, procs[p].uid), rt)
     IN IF m = {}
        THEN /\ procs' = [procs EXCEPT ![p] = IdleProc]
             /\ resp' = [Answer("logout", rt, "LoggedOut") EXCEPT !.uid = procs[p].uid]
        ELSE /\ \E r \in m :
                  procs' = [procs EXCEPT ![p].pc = "o_update", ![p].rec = r, ![p].tok = rt]
             /\ resp' = resp
  /\ UNCHANGED <<limVars, now, ticks, started, refreshSecret, users, refreshTokens, sessions,
                 rotated, revokedBy, flagged>>

\* A slip: the logout with a token revokes every row of the user.
LogoutUpdateAll(p) ==
  /\ procs[p].pc = "o_update"
  /\ sessions' = updateMany(sessions, procs[p].uid, now)
  /\ resp' = [Answer("logout", procs[p].tok, "LoggedOut") EXCEPT !.uid = procs[p].uid]
  /\ procs' = [procs EXCEPT ![p] = IdleProc]
  /\ revokedBy' = revokedBy \cup {procs[p].tok}
  /\ UNCHANGED <<limVars, now, ticks, started, refreshSecret, users, refreshTokens, rotated,
                 flagged>>

\* Revoke the row that matched.
LogoutUpdate(p) ==
  /\ procs[p].pc = "o_update"
  /\ sessions' = update(sessions, procs[p].rec, now)
  /\ resp' = [Answer("logout", procs[p].tok, "LoggedOut") EXCEPT !.uid = procs[p].uid]
  /\ procs' = [procs EXCEPT ![p] = IdleProc]
  /\ revokedBy' = revokedBy \cup {procs[p].tok}
  /\ UNCHANGED <<limVars, now, ticks, started, refreshSecret, users, refreshTokens, rotated,
                 flagged>>

\* The body carries no refresh token: revoke every row of the user.
LogoutAll(p) ==
  /\ procs[p].pc = "o_body"
  /\ sessions' = updateMany(sessions, procs[p].uid, now)
  /\ resp' = [Answer("logout", NoToken, "LoggedOut") EXCEPT !.uid = procs[p].uid]
  /\ procs' = [procs EXCEPT ![p] = IdleProc]
  /\ revokedBy' = revokedBy \cup
       {sessions[i].tokenHash.tok : i \in findManyUnrevoked(sessions, procs[p].uid)}
  /\ UNCHANGED <<limVars, now, ticks, started, refreshSecret, users, refreshTokens, rotated,
                 flagged>>

\* ------------------------------------------------------------ environment
\* Time passes: a second, the life of an access token, the life of a
\* refresh token.
TickSteps == {1, AccessTtl, RefreshTtl}

\* The positions between the signing of a pair and the insert of its row.
Storing == {"l_store", "r_store", "x_lstore", "x_store"}

\* The clock does not advance between the signing of a pair and the insert
\* of its row (two sign calls and one hash lie between them); it advances
\* at every other point of a request.
Tick(d) ==
  /\ ticks < MaxTicks
  /\ \A p \in Procs : procs[p].pc \notin Storing
  /\ ticks' = ticks + 1
  /\ now' = now + d
  /\ UNCHANGED <<limVars, started, refreshSecret, users, refreshTokens, sessions, procs, resp,
                 rotated,
                 revokedBy, flagged>>

Next ==
  \/ \E p \in Procs, u \in users, valid \in BOOLEAN : LoginIssue(p, u, valid)
  \/ \E p \in Procs : LoginStore(p)
  \/ \E p \in Procs, t \in Presentable : RefreshVerify(p, t)
  \/ \E p \in Procs : RefreshFind(p)
  \/ \E p \in Procs : RefreshRevoke(p)
  \/ \E p \in Procs : RefreshIssue(p)
  \/ \E p \in Procs : RefreshStore(p)
  \/ \E p \in Procs : RefreshStoreThrows(p)
  \/ \E p \in Procs, t \in Presentable : Authenticate(p, t)
  \/ \E p \in Procs, t \in Presentable : LogoutAuth(p, t)
  \/ \E p \in Procs, rt \in Presentable : LogoutFind(p, rt)
  \/ \E p \in Procs : LogoutUpdate(p)
  \/ \E p \in Procs : LogoutAll(p)
  \/ \E d \in TickSteps : Tick(d)

Spec == Init /\ [][Next]_vars

\* A user with two devices: login B two seconds ago, login A within the
\* current second, both answered.
InitDevices ==
  /\ now = StartTime
  /\ ticks = 0
  /\ started = 0
  /\ refreshSecret \in SecretValues
  /\ users = {1}
  /\ refreshTokens = {}
  /\ sessions =
       create(create(<< >>, 1, signRefresh(1, StartTime - 2, refreshSecret),
                     StartTime - 2, "login"),
              1, signRefresh(1, StartTime, refreshSecret), StartTime, "login")
  /\ procs = [p \in Procs |-> IdleProc]
  /\ resp = NoResp
  /\ rotated = {}
  /\ revokedBy = {}
  /\ flagged = {}
  /\ LimiterIdle

SpecDevices == InitDevices /\ [][Next]_vars

\* Two accounts, each with one device logged in two seconds ago.
InitUsers ==
  /\ now = StartTime
  /\ ticks = 0
  /\ started = 0
  /\ refreshSecret = "secret_b"
  /\ users = {1, 2}
  /\ refreshTokens = {}
  /\ sessions =
       create(create(<< >>, 1, signRefresh(1, StartTime - 2, refreshSecret),
                     StartTime - 2, "login"),
              2, signRefresh(2, StartTime - 2, refreshSecret), StartTime - 2, "login")
  /\ procs = [p \in Procs |-> IdleProc]
  /\ resp = NoResp
  /\ rotated = {}
  /\ revokedBy = {}
  /\ flagged = {}
  /\ LimiterIdle

\* The requests that revoke or rotate: refresh and logout.  The clock
\* stands still here: which user a query selects does not depend on it.
NextUsers ==
  \/ \E p \in Procs, t \in Presentable : RefreshVerify(p, t)
  \/ \E p \in Procs : RefreshFind(p)
  \/ \E p \in Procs : RefreshRevoke(p)
  \/ \E p \in Procs : RefreshIssue(p)
  \/ \E p \in Procs : RefreshStore(p)
  \/ \E p \in Procs, t \in Presentable : LogoutAuth(p, t)
  \/ \E p \in Procs, rt \in Presentable : LogoutFind(p, rt)
  \/ \E p \in Procs : LogoutUpdate(p)
  \/ \E p \in Procs : LogoutAll(p)

SpecUsers == InitUsers /\ [][NextUsers]_vars

\* ------------------------------------------------ self-contained example
\* The closing example of the guide is a server of its own: its users and
\* its refresh tokens live in memory, its refresh secret is derived from
\* JWT_SECRET, and it has its own guard.  It shares no state with the
\* handlers above; db.refreshToken stays empty here, and refreshSecret is
\* JWT_SECRET + "_refresh".
ExampleRefreshSecret == "secret_a_refresh"

ExampleUsers == {1}

\* Tokens the example has handed out: the refresh tokens in the Set, those
\* that a rotation has deleted from it, and the access token of each pair.
exHanded ==
  UNION {{t, signAccess(t.sub, t.iat)} : t \in refreshTokens \cup {x.tok : x \in rotated}}

\* A refresh token of the example that is not in the Set: the Set is empty
\* again after a restart of the process.
exForged == {signRefresh(u, StartTime - 1, refreshSecret) : u \in ExampleUsers}

exPresentable == exHanded \cup exForged

\* const users = [], const refreshTokens = new Set()
InitExample ==
  /\ now = StartTime
  /\ ticks = 0
  /\ started = 0
  /\ refreshSecret = ExampleRefreshSecret
  /\ users = {}
  /\ refreshTokens = {}
  /\ sessions = << >>
  /\ procs = [p \in Procs |-> IdleProc]
  /\ resp = NoResp
  /\ rotated = {}
  /\ revokedBy = {}
  /\ flagged = {}
  /\ LimiterIdle

\* auth.post("/register"): the handler has no await, it runs in one piece.
exRegister(u) ==
  /\ IF u \in users
     THEN /\ users' = users
          /\ resp' = Answer("register", NoToken, "EmailTaken")
     ELSE /\ users' = users \cup {u}
          /\ resp' = [Answer("register", NoToken, "Created") EXCEPT !.uid = u]
  /\ UNCHANGED <<limVars, now, ticks, started, refreshSecret, refreshTokens, sessions, procs,
                 rotated, revokedBy, flagged>>

\* auth.post("/login") up to the signing of the pair.
exLoginIssue(p, u, valid) ==
  /\ Free(p)
  /\ IF u \in users /\ valid
     THEN /\ procs' = [procs EXCEPT ![p] =
                [IdleProc EXCEPT !.pc = "x_lstore", !.op = "login", !.uid = u,
                                 !.cred = TRUE,
                                 !.newA = signAccess(u, now),
                                 !.newR = signRefresh(u, now, refreshSecret)]]
          /\ resp' = resp
     ELSE /\ procs' = procs
          /\ resp' = Answer("login", NoToken, "InvalidCredentials")
  /\ UNCHANGED <<limVars, now, ticks, refreshSecret, users, refreshTokens, sessions, rotated,
                 revokedBy, flagged>>

\* auth.post("/login"): refreshTokens.add, answer with the pair.
exLoginStore(p) ==
  /\ procs[p].pc = "x_lstore"
  /\ refreshTokens' = refreshTokens \cup {procs[p].newR}
  /\ resp' = [Answer("login", NoToken, "ok") EXCEPT
                !.uid = procs[p].uid, !.newA = procs[p].newA, !.newR = procs[p].newR]
  /\ procs' = [procs EXCEPT ![p] = IdleProc]
  /\ UNCHANGED <<limVars, now, ticks, started, refreshSecret, users, sessions, rotated,
                 revokedBy, flagged>>

\* auth.post("/refresh"): the first thing done with the token is the lookup
\* in the Set; a token that is not in it is answered at once.
exRefreshHas(p, t) ==
  /\ Free(p)
  /\ t \in exPresentable
  /\ LET prior == t \in {x.tok : x \in rotated}
     IN IF t \notin refreshTokens
        THEN /\ procs' = procs
             /\ resp' = [Answer("refresh", t, "NotInStore") EXCEPT !.prior = prior]
        ELSE /\ procs' = [procs EXCEPT ![p] =
                   [IdleProc EXCEPT !.pc = "x_verify", !.op = "refresh", !.tok = t,
                                    !.prior = prior]]
             /\ resp' = resp
  /\ UNCHANGED <<limVars, now, ticks, refreshSecret, users, refreshTokens, sessions, rotated,
                 revokedBy, flagged>>

\* After verify has settled: its failure and the failure of the type check
\* end in the same catch; then the user, the delete, and the signing.
exRefreshVerify(p) ==
  /\ procs[p].pc = "x_verify"
  /\ LET t == procs[p].tok
     IN IF verify(t, refreshSecret, now) # "ok" \/ t.typ # "refresh"
        THEN /\ procs' = [procs EXCEPT ![p] = IdleProc]
             /\ resp' = [Answer("refresh", t, "InvalidToken") EXCEPT !.prior = procs[p].prior]
             /\ refreshTokens' = refreshTokens
        ELSE IF t.sub \notin users
        THEN /\ procs' = [procs EXCEPT ![p] = IdleProc]
             /\ resp' = [Answer("refresh", t, "UserNotFound") EXCEPT !.prior = procs[p].prior]
             /\ refreshTokens' = refreshTokens
        ELSE /\ refreshTokens' = refreshTokens \ {t}
             /\ procs' = [procs EXCEPT ![p].pc = "x_store", ![p].uid = t.sub,
                             ![p].newA = signAccess(t.sub, now),
                             ![p].newR = signRefresh(t.sub, now, refreshSecret)]
             /\ resp' = resp
  /\ UNCHANGED <<limVars, now, ticks, started, refreshSecret, users, sessions, rotated,
                 revokedBy, flagged>>

\* refreshTokens.add(newRefreshToken), answer with the pair.
exRefreshStore(p) ==
  /\ procs[p].pc = "x_store"
  /\ refreshTokens' = refreshTokens \cup {procs[p].newR}
  /\ resp' = [Answer("refresh", procs[p].tok, "ok") EXCEPT
                !.uid = procs[p].uid, !.newA = procs[p].newA,
                !.newR = procs[p].newR, !.prior = procs[p].prior]
  /\ procs' = [procs EXCEPT ![p] = IdleProc]
  /\ rotated' = rotated \cup {[tok |-> procs[p].tok, rec |-> NoRecord]}
  /\ UNCHANGED <<limVars, now, ticks, started, refreshSecret, users, sessions, revokedBy, flagged>>

\* The guard of the example: one answer for every failure of verify.
exAuthenticate(t, n) ==
  IF verify(t, JWT_SECRET, n) = "ok" THEN "Identity" ELSE "InvalidOrExpired"

\* A request to a route behind the guard of the example.
ExAuthenticate(p, t) ==
  /\ Free(p)
  /\ t \in exPresentable
  /\ resp' = [Answer("auth", t, exAuthenticate(t, now)) EXCEPT
                !.uid = IF exAuthenticate(t, now) = "Identity" THEN t.sub ELSE 0]
  /\ UNCHANGED <<limVars, now, ticks, refreshSecret, users, refreshTokens, sessions, procs,
                 rotated, revokedBy, flagged>>

\* auth.post("/logout"): the guard, then the answer; nothing is revoked.
exLogout(p, t) ==
  /\ Free(p)
  /\ t \in exPresentable
  /\ resp' = IF exAuthenticate(t, now) = "Identity"
             THEN [Answer("logout", NoToken, "LoggedOut") EXCEPT !.uid = t.sub]
             ELSE Answer("logout", t, exAuthenticate(t, now))
  /\ UNCHANGED <<limVars, now, ticks, refreshSecret, users, refreshTokens, sessions, procs,
                 rotated, revokedBy, flagged>>

NextExample ==
  \/ \E u \in ExampleUsers : exRegister(u)
  \/ \E p \in Procs, u \in ExampleUsers, valid \in BOOLEAN : exLoginIssue(p, u, valid)
  \/ \E p \in Procs : exLoginStore(p)
  \/ \E p \in Procs, t \in exPresentable : exRefreshHas(p, t)
  \/ \E p \in Procs : exRefreshVerify(p)
  \/ \E p \in Procs : exRefreshStore(p)
  \/ \E p \in Procs, t \in exPresentable : ExAuthenticate(p, t)
  \/ \E p \in Procs, t \in exPresentable : exLogout(p, t)
  \/ \E d \in TickSteps : Tick(d)

SpecExample == InitExample /\ [][NextExample]_vars

\* ------------------------------------------------- backend login router
\* routes/auth.ts of apps/backend: the login route of the application
\* itself.  It reads no user, compares no password, signs nothing and
\* writes no row; after the body has passed loginSchema it answers
\* "Login successful" with a fixed token.
PlaceholderToken == [NoToken EXCEPT !.typ = "placeholder"]

\* The accounts a body can name: 1 exists, 2 does not.
BackendEmails == {1, 2}

InitBackend ==
  /\ now = StartTime
  /\ ticks = 0
  /\ started = 0
  /\ refreshSecret = JWT_SECRET
  /\ users = {1}
  /\ refreshTokens = {}
  /\ sessions = << >>
  /\ procs = [p \in Procs |-> IdleProc]
  /\ resp = NoResp
  /\ rotated = {}
  /\ revokedBy = {}
  /\ flagged = {}
  /\ LimiterIdle

\* zValidator("json", loginSchema): a body that does not match the schema
\* is answered with 400; otherwise the handler runs once the body is read.
\* valid: the password is the one of the account named.
zValidator(p, u, valid, wellFormed) ==
  /\ Free(p)
  /\ valid => u \in users
  /\ IF wellFormed
     THEN /\ procs' = [procs EXCEPT ![p] =
                [IdleProc EXCEPT !.pc = "b_login", !.op = "login", !.uid = u,
                                 !.cred = valid]]
          /\ resp' = resp
     ELSE /\ procs' = procs
          /\ resp' = Answer("login", NoToken, "BadRequest")
  /\ UNCHANGED <<limVars, now, ticks, refreshSecret, users, refreshTokens, sessions, rotated,
                 revokedBy, flagged>>

\* authRouter.post("/login"): the handler body.
authRouterLogin(p) ==
  /\ procs[p].pc = "b_login"
  /\ resp' = [Answer("login", NoToken, "ok") EXCEPT !.newA = PlaceholderToken]
  /\ procs' = [procs EXCEPT ![p] = IdleProc]
  /\ UNCHANGED <<limVars, now, ticks, started, refreshSecret, users, refreshTokens, sessions,
                 rotated, revokedBy, flagged>>

NextBackend ==
  \/ \E p \in Procs, u \in BackendEmails, valid \in BOOLEAN, wellFormed \in BOOLEAN :
       zValidator(p, u, valid, wellFormed)
  \/ \E p \in Procs : authRouterLogin(p)
  \/ \E d \in TickSteps : Tick(d)

SpecBackend == InitBackend /\ [][NextBackend]_vars

\* ----------------------------------------------------- rate limiter steps
\* rateLimiter({windowMs, max}) has been called and mounted; max is any
\* number of requests from 0 on.
InitLimiter ==
  /\ now = StartTime
  /\ ticks = 0
  /\ started = 0
  /\ refreshSecret = JWT_SECRET
  /\ users = {}
  /\ refreshTokens = {}
  /\ sessions = << >>
  /\ procs = [p \in Procs |-> IdleProc]
  /\ resp = NoResp
  /\ rotated = {}
  /\ revokedBy = {}
  /\ flagged = {}
  /\ store = [k \in Keys |-> NoRate]
  /\ limiter \in [windowMs : WindowValues, max : 0..MaxLimit]
  /\ hits = [k \in Keys |-> 0]
  /\ lresp = NoDecision

\* The middleware, from keyGenerator to next() or to the 429.  It has no
\* await: one request is one step.  status 200 stands for next().
rateLimiter(key) ==
  /\ started < MaxRequests
  /\ started' = started + 1
  /\ LET record == store[key]
     IN IF record = NoRate \/ now > record.resetAt
        THEN /\ store' = [store EXCEPT ![key] =
                            [count |-> 1, resetAt |-> now + limiter.windowMs]]
             /\ lresp' = [key |-> key, status |-> 200, remaining |-> limiter.max - 1]
             /\ hits' = [hits EXCEPT ![key] = 1]
        ELSE IF record.count >= limiter.max
        THEN /\ lresp' = [key |-> key, status |-> 429, remaining |-> 0]
             /\ UNCHANGED <<store, hits>>
        ELSE /\ store' = [store EXCEPT ![key].count = record.count + 1]
             /\ lresp' = [key |-> key, status |-> 200,
                          remaining |-> limiter.max - (record.count + 1)]
             /\ hits' = [hits EXCEPT ![key] = hits[key] + 1]
  /\ UNCHANGED <<now, ticks, refreshSecret, users, refreshTokens, sessions, procs,
                 resp, rotated, revokedBy, flagged, limiter>>

NextLimiter ==
  \/ \E key \in Keys : rateLimiter(key)
  \/ \E d \in TickSteps : Tick(d)

SpecLimiter == InitLimiter /\ [][NextLimiter]_vars

\* ------------------------------------------------------------- properties
\* A step that sends a response (resp' is that response): a request in
\* flight ends, or a request is answered in the step that receives it.
Answered ==
  \/ \E p \in Procs : procs[p].pc # "idle" /\ procs'[p].pc = "idle"
  \/ started' # started /\ procs' = procs

RowsOf(rows, u) == {i \in DOMAIN rows : rows[i].userId = u}

AllRevoked(rows, u) == \A i \in RowsOf(rows, u) : rows[i].revokedAt # NULL

RotatedTokens == {x.tok : x \in rotated}

\* C1: of the refresh() calls that are in flight together with the same
\* valid refresh token (they found the same row), one returns a new pair
\* and every other one fails with ReuseDetected: a call that has revoked a
\* row for which a pair was already returned answers ReuseDetected.
C1_OneWinner ==
  [][\A p \in Procs :
       ( /\ procs[p].pc \in {"r_issue", "r_store"}
         /\ procs'[p].pc = "idle"
         /\ procs[p].rec \in {x.rec : x \in rotated} )
       => resp'.res = "ReuseDetected"]_vars

\* C2: a refresh() call that arrives after a refresh() with the same token
\* string has returned a pair fails with ReuseDetected, and when it returns
\* the user has no active session row.
C2_SingleUse ==
  [][( /\ Answered
       /\ resp'.op = "refresh"
       /\ resp'.prior
       /\ verify(resp'.tok, refreshSecret, now) = "ok" )
     => ( /\ resp'.res = "ReuseDetected"
          /\ ActiveIn(sessions', resp'.tok.sub, now') = {} )]_vars

\* C3: a refresh token that verifies but matches no active row of its
\* subject takes the reuse branch, whether or not a row of it exists; the
\* step that produces the ReuseDetected answer has revoked every row of
\* that user.
C3_ReuseRemediation ==
  [][/\ \A p \in Procs :
          /\ ( procs[p].pc = "r_find" /\ procs'[p] # procs[p] )
             => ( procs'[p].rec = NoRecord
                  <=> \A i \in ActiveOf(procs[p].uid) :
                         sessions[i].tokenHash.tok # procs[p].tok )
          /\ ( procs[p].pc = "r_revoke" /\ procs[p].rec = NoRecord /\ procs'[p] # procs[p] )
             => ( /\ procs'[p].pc = "idle"
                  /\ resp'.op = "refresh"
                  /\ resp'.tok = procs[p].tok
                  /\ resp'.res = "ReuseDetected"
                  /\ AllRevoked(sessions', procs[p].uid) )
     /\ ( Answered /\ resp'.res = "ReuseDetected" )
          => AllRevoked(sessions', resp'.tok.sub)]_vars

\* Both cases of C3 have happened: one token was answered ReuseDetected
\* that has no row at all while its user has rows, another one that has a
\* row, and every row of that user is revoked.
C3_Witness ==
  \E t1, t2 \in flagged :
    /\ \A i \in DOMAIN sessions : sessions[i].tokenHash.tok # t1
    /\ RowsOf(sessions, t1.sub) # {}
    /\ \E i \in DOMAIN sessions : sessions[i].tokenHash.tok = t2
    /\ AllRevoked(sessions, t2.sub)
    /\ resp.res = "ReuseDetected"

\* Two sessions of the user t.sub that come from two logins, t being the
\* refresh token of the first one.
TwoDevices(t) ==
  \E a, b \in DOMAIN sessions :
    /\ a # b
    /\ sessions[a].userId = t.sub /\ sessions[b].userId = t.sub
    /\ sessions[a].via = "login" /\ sessions[b].via = "login"
    /\ sessions[a].tokenHash.tok = t
    /\ sessions[b].tokenHash.tok # t

\* C4: with two sessions A and B from two logins, presenting the refresh
\* token of A after it was rotated revokes the current row of A and the row
\* of B: no row of the user stays unrevoked, so B's own token finds no row.
C4_BlastRadius ==
  [][( /\ Answered
       /\ resp'.op = "refresh"
       /\ resp'.prior
       /\ verify(resp'.tok, refreshSecret, now) = "ok"
       /\ TwoDevices(resp'.tok) )
     => ( /\ resp'.res = "ReuseDetected"
          /\ AllRevoked(sessions', resp'.tok.sub) )]_vars

\* C5: a refresh token string that a successful rotation has consumed or a
\* logout has revoked matches no active row.
C5_SpentNeverActive ==
  \A t \in RotatedTokens \cup revokedBy :
    \A i \in ActiveOf(t.sub) : ~ bcryptCompare(t, sessions[i].tokenHash)

\* C6: a refresh token string matches the stored hash of at most one row.
C6_OneRowPerToken ==
  \A i, j \in DOMAIN sessions :
    bcryptCompare(sessions[i].tokenHash.tok, sessions[j].tokenHash) => i = j

\* C7: the refresh token that a successful refresh() returns differs from
\* the one that was presented.
C7_FreshRefreshToken ==
  (resp.op = "refresh" /\ resp.res = "ok") => resp.newR # resp.tok

\* C8: the access token returned by a successful refresh with the refresh
\* token of a login differs from the access token that login returned (the
\* two tokens of a login are signed with the same sub and iat).
C8_FreshAccessToken ==
  ( /\ resp.op = "refresh" /\ resp.res = "ok"
    /\ \E i \in DOMAIN sessions :
         sessions[i].via = "login" /\ sessions[i].tokenHash.tok = resp.tok )
  => resp.newA # signAccess(resp.tok.sub, resp.tok.iat)

\* An issued token of the given class that has not expired.
IssuedUnexpired(t, typ) == t \in handed /\ t.typ = typ /\ now < t.exp

\* C9 as stated: refresh() given an issued, unexpired access token fails
\* with TokenTypeMismatch.
C9_TypeMismatchOnly ==
  (resp.op = "refresh" /\ IssuedUnexpired(resp.tok, "access"))
  => resp.res = "TokenTypeMismatch"

\* C9 amended: refresh() given an issued, unexpired access token answers in
\* its first step with a failure, TokenTypeMismatch when the refresh secret
\* equals the access secret and the invalid-token failure of the signature
\* check otherwise; it signs no token and changes no session row.
C9_AccessTokenRejected ==
  [][/\ \A p \in Procs :
          procs'[p].op = "refresh" => ~ IssuedUnexpired(procs'[p].tok, "access")
     /\ ( Answered /\ resp'.op = "refresh" /\ IssuedUnexpired(resp'.tok, "access") )
          => ( /\ started' # started
               /\ resp'.res = IF refreshSecret = JWT_SECRET
                              THEN "TokenTypeMismatch" ELSE "InvalidToken"
               /\ resp'.newA = NoToken /\ resp'.newR = NoToken
               /\ sessions' = sessions )]_vars

\* An access token was presented to refresh() under distinct secrets and
\* was turned down by the signature check.
C9_Witness ==
  /\ resp.op = "refresh"
  /\ IssuedUnexpired(resp.tok, "access")
  /\ refreshSecret # JWT_SECRET
  /\ resp.res = "InvalidToken"

\* C10: the guard given an issued, unexpired refresh token fails with
\* TokenTypeMismatch and yields no identity.
C10_GuardRejectsRefreshToken ==
  (resp.op = "auth" /\ IssuedUnexpired(resp.tok, "refresh"))
  => (resp.res = "TokenTypeMismatch" /\ resp.uid = 0)

C13_GuardIgnoresStore ==
  [][( started' # started /\ procs' = procs /\ resp'.op = "auth" )
     => ( /\ sessions' = sessions
          /\ resp'.res = "Identity"
               <=> ( /\ resp'.tok.typ # "none"
                     /\ resp'.tok.key = JWT_SECRET
                     /\ resp'.tok.iat <= now /\ now < resp'.tok.exp )
          /\ resp'.uid = IF resp'.res = "Identity" THEN resp'.tok.sub ELSE 0 )]_vars

\* The guard has accepted an access token of a user all of whose sessions
\* are revoked (no request is in flight, so the rows are those of the time
\* of the answer).
C13_Witness ==
  /\ resp.op = "auth"
  /\ resp.res = "Identity"
  /\ resp.tok.typ = "access"
  /\ \A p \in Procs : procs[p].pc = "idle"
  /\ RowsOf(sessions, resp.uid) # {}
  /\ AllRevoked(sessions, resp.uid)

\* C15: when the matched row was revoked by another call between the match
\* step and the consume step of a refresh() call, the consume step changes
\* no row, and the call revokes every row of the user and fails with
\* ReuseDetected without signing a pair.
C15_LateConsumeFails ==
  [][\A p \in Procs :
       ( /\ procs[p].pc = "r_revoke"
         /\ procs[p].rec # NoRecord
         /\ sessions[procs[p].rec].revokedAt # NULL
         /\ procs'[p] # procs[p] )
       => ( /\ procs'[p].pc = "idle"
            /\ resp'.op = "refresh"
            /\ resp'.tok = procs[p].tok
            /\ resp'.res = "ReuseDetected"
            /\ resp'.newA = NoToken /\ resp'.newR = NoToken
            /\ sessions'[procs[p].rec] = sessions[procs[p].rec]
            /\ AllRevoked(sessions', procs[p].uid) )]_vars

\* C16: no step of any handler removes a row or sets the revokedAt of a
\* revoked row back to null: a revoked row stays revoked and is never
\* active again.
C16_NoResurrection ==
  [][\A i \in DOMAIN sessions :
       /\ i \in DOMAIN sessions'
       /\ sessions[i].revokedAt # NULL
            => ( /\ sessions'[i].revokedAt # NULL
                 /\ ~ IsActive(sessions'[i], now') )]_vars

\* A row that a rotation had revoked was afterwards written again by a
\* logout without a token, the answer sent last, and is still revoked.
C16_Witness ==
  /\ resp.op = "logout"
  /\ resp.res = "LoggedOut"
  /\ resp.tok = NoToken
  /\ \E x \in rotated :
       /\ x.rec # NoRecord
       /\ sessions[x.rec].userId = resp.uid
       /\ sessions[x.rec].revokedAt # NULL

\* C17: a refresh() answer carries a pair only in the step that has
\* inserted the row of the returned refresh token (the last row, of that
\* user, not revoked); when the insert fails the answer is an error that
\* carries no token and no row is added.
C17_PairOnlyAfterCommit ==
  [][( Answered /\ resp'.op = "refresh" )
     => ( /\ ( resp'.res = "ok" \/ resp'.newA # NoToken \/ resp'.newR # NoToken )
               => ( /\ resp'.res = "ok"
                    /\ Len(sessions') = Len(sessions) + 1
                    /\ sessions'[Len(sessions')].tokenHash.tok = resp'.newR
                    /\ sessions'[Len(sessions')].userId = resp'.uid
                    /\ sessions'[Len(sessions')].revokedAt = NULL )
          /\ resp'.res = "InternalError"
               => ( /\ resp'.newA = NoToken /\ resp'.newR = NoToken
                    /\ sessions' = sessions ) )]_vars

\* A rotation has returned a pair, and a later refresh() whose insert
\* failed was answered with the error.
C17_Witness ==
  /\ rotated # {}
  /\ resp.op = "refresh"
  /\ resp.res = "InternalError"
  /\ resp.newR = NoToken

\* C18: a logout whose body token matches an active row of the user does
\* not answer before it has revoked a row; the write step revokes one row,
\* a row of that user whose hash the token matches, and leaves every other
\* row and every other column as it was.  A logout without a body token
\* leaves no row of the user unrevoked.
C18_LogoutFrame ==
  [][\A p \in Procs :
       /\ ( procs[p].pc = "o_body" /\ procs'[p].pc = "idle" /\ resp'.tok # NoToken )
            => ( /\ sessions' = sessions
                 /\ \A i \in ActiveOf(procs[p].uid) :
                      ~ bcryptCompare(resp'.tok, sessions[i].tokenHash) )
       /\ ( procs[p].pc = "o_update" /\ procs'[p].pc = "idle" )
            => LET r == procs[p].rec
               IN /\ DOMAIN sessions' = DOMAIN sessions
                  /\ sessions[r].userId = procs[p].uid
                  /\ bcryptCompare(procs[p].tok, sessions[r].tokenHash)
                  /\ sessions'[r] = [sessions[r] EXCEPT !.revokedAt = now]
                  /\ \A i \in DOMAIN sessions : i # r => sessions'[i] = sessions[i]
       /\ ( procs[p].pc = "o_body" /\ procs'[p].pc = "idle" /\ resp'.tok = NoToken )
            => ( /\ ActiveIn(sessions', procs[p].uid, now') = {}
                 /\ findManyUnrevoked(sessions', procs[p].uid) = {} )]_vars

\* A logout with a token has revoked the row of that token while another
\* session of the user, with another token, is still active.
C18_Witness ==
  /\ resp.op = "logout"
  /\ resp.res = "LoggedOut"
  /\ resp.tok \in revokedBy
  /\ \A p \in Procs : procs[p].pc = "idle"
  /\ \E i, j \in RowsOf(sessions, resp.uid) :
       /\ sessions[i].tokenHash.tok = resp.tok
       /\ sessions[i].revokedAt # NULL
       /\ sessions[j].tokenHash.tok # resp.tok
       /\ IsActive(sessions[j], now)

\* C19: a logout with the refresh token of the logout that was answered
\* last before it arrived, no row having been inserted since, is answered
\* as a success and changes no row.
C19_LogoutIdempotent ==
  [][\A p \in Procs :
       ( /\ procs[p].op = "logout"
         /\ procs[p].pc # "idle" /\ procs'[p].pc = "idle"
         /\ procs[p].last # NoToken
         /\ resp'.tok = procs[p].last
         /\ Len(sessions) = procs[p].len )
       => ( resp'.res = "LoggedOut" /\ sessions' = sessions )]_vars

\* C20: every answer of a logout that has passed the guard is the same
\* success without tokens, whether the body token matched an unrevoked row,
\* matched no row, or matched only rows that were revoked or rotated.
C20_LogoutUniform ==
  [][\A p \in Procs :
       ( procs[p].op = "logout" /\ procs[p].pc # "idle" /\ procs'[p].pc = "idle" )
       => ( /\ resp'.op = "logout"
            /\ resp'.res = "LoggedOut"
            /\ resp'.uid = procs[p].uid
            /\ resp'.newA = NoToken /\ resp'.newR = NoToken )]_vars

\* A logout was answered whose body token no logout has revoked and whose
\* only rows were revoked before (the token had been rotated away).
C20_Witness ==
  /\ resp.op = "logout"
  /\ resp.res = "LoggedOut"
  /\ resp.tok \in RotatedTokens
  /\ resp.tok \notin revokedBy
  /\ \A i \in DOMAIN sessions :
       sessions[i].tokenHash.tok = resp.tok => sessions[i].revokedAt # NULL

\* C12: the guard answers a well-formed access token with a correct
\* signature whose exp is not after now with TokenExpired, and answers no
\* token that has not expired with TokenExpired; this holds for the guard
\* of the auth routes and for the guard of the self-contained example.
C12_ExpiredDistinguished ==
  [][( started' # started /\ procs' = procs /\ resp'.op = "auth" )
     => ( /\ ( /\ resp'.tok.typ # "none"
               /\ resp'.tok.key = JWT_SECRET
               /\ resp'.tok.exp <= now )
               => resp'.res = "TokenExpired"
          /\ ( resp'.tok.typ = "none" \/ now < resp'.tok.exp )
               => resp'.res # "TokenExpired" )]_vars

\* The token fails the verification of refresh(): verify fails, or the
\* token is not of the refresh class.
FailsVerification(t) == verify(t, refreshSecret, now) # "ok" \/ t.typ # "refresh"

\* C14: a refresh() call whose token fails verification is answered in the
\* step that receives it, with the verification failure and not with an
\* answer that comes from a lookup in the store; it takes no further step
\* (the store is read in later steps only) and the store is left as it was.
C14_NoStoreOnBadToken ==
  [][/\ \A p \in Procs :
          (procs[p].pc = "idle" /\ procs'[p].op = "refresh")
            => ~ FailsVerification(procs'[p].tok)
     /\ ( /\ started' # started /\ procs' = procs
          /\ resp'.op = "refresh"
          /\ FailsVerification(resp'.tok) )
          => ( /\ resp'.res \in {"InvalidToken", "TokenTypeMismatch"}
               /\ sessions' = sessions
               /\ refreshTokens' = refreshTokens )]_vars

\* C21: when a refresh() call with a token that an earlier rotation has
\* consumed is answered, the store holds no usable refresh credential of
\* that user any more: no active row and no member of the Set of the
\* example.
C21_ReplayClearsUser ==
  [][( /\ Answered
       /\ resp'.op = "refresh"
       /\ resp'.prior )
     => ( /\ ActiveIn(sessions', resp'.tok.sub, now') = {}
          /\ \A t \in refreshTokens' : t.sub # resp'.tok.sub )]_vars

\* C22: no step deletes a session record, and no step changes the userId,
\* the credential digest or the expiresAt of an existing record: every row
\* of the table is still there after the step with these three fields as
\* before, and every member of the Set of the example is still a member.
C22_RecordsImmutable ==
  [][ /\ Len(sessions') >= Len(sessions)
      /\ \A i \in DOMAIN sessions :
           /\ sessions'[i].userId = sessions[i].userId
           /\ sessions'[i].tokenHash = sessions[i].tokenHash
           /\ sessions'[i].expiresAt = sessions[i].expiresAt
      /\ refreshTokens \subseteq refreshTokens' ]_vars

\* C23: when a refresh() call fails after its consume step and before the
\* new record is stored (the user is not found, or the insert rejects), the
\* record it consumed is revoked, the table is left as it was, the answer
\* carries no token, and the presented token matches no active record of
\* the user any more, so that a later refresh() call with it finds no match.
C23_FailedRotationKillsToken ==
  [][\A p \in Procs :
       ( /\ procs[p].pc \in {"r_issue", "r_store"}
         /\ procs'[p].pc = "idle"
         /\ resp'.res \in {"UserNotFound", "InternalError"} )
       => ( /\ sessions' = sessions
            /\ sessions'[procs[p].rec].revokedAt # NULL
            /\ resp'.newA = NoToken /\ resp'.newR = NoToken
            /\ matching(sessions',
                        findManyActive(sessions', procs[p].uid, now'),
                        procs[p].tok) = {} )]_vars

\* C24: a refresh() call moves through its stages in order: it looks for a
\* match only after the token was verified, it consumes only a row that the
\* compare loop matched, it signs only after that row was revoked, it
\* stores the new row only after signing, and it answers a pair only from
\* the store step.  When the new row is created the consumed row is already
\* revoked, so the two are not active together.
C24_StagesInOrder ==
  [][\A p \in Procs :
       /\ (procs'[p].pc = "r_find" /\ procs[p].pc # "r_find")
            => procs[p].pc = "idle"
       /\ (procs'[p].pc = "r_revoke" /\ procs[p].pc # "r_revoke")
            => procs[p].pc = "r_find"
       /\ (procs'[p].pc = "r_issue" /\ procs[p].pc # "r_issue")
            => /\ procs[p].pc = "r_revoke"
               /\ procs[p].rec \in DOMAIN sessions
               /\ bcryptCompare(procs[p].tok, sessions[procs[p].rec].tokenHash)
               /\ sessions'[procs[p].rec].revokedAt # NULL
       /\ (procs'[p].pc = "r_store" /\ procs[p].pc # "r_store")
            => procs[p].pc = "r_issue"
       /\ (procs[p].pc = "r_store" /\ Len(sessions') > Len(sessions))
            => /\ sessions[procs[p].rec].revokedAt # NULL
               /\ ~IsActive(sessions'[procs[p].rec], now')
               /\ IsActive(sessions'[Len(sessions')], now')
       /\ ( /\ procs[p].op = "refresh" /\ procs[p].pc # "idle"
            /\ procs'[p].pc = "idle" /\ resp'.res = "ok" )
            => procs[p].pc = "r_store"]_vars

\* A rotation has completed: the consumed row is revoked and the row of the
\* new refresh token is active.
C24_Witness ==
  /\ resp.op = "refresh" /\ resp.res = "ok"
  /\ \E x \in rotated :
       /\ x.tok = resp.tok
       /\ x.rec \in DOMAIN sessions
       /\ sessions[x.rec].revokedAt # NULL
       /\ \E i \in DOMAIN sessions \ {x.rec} :
            /\ sessions[i].via = "refresh"
            /\ IsActive(sessions[i], now)
            /\ bcryptCompare(resp.newR, sessions[i].tokenHash)

\* C25: a login answer carries a token only if the password presented was
\* the one of the account and the record of the refresh token it carries is
\* in the store when the answer is sent; a login whose credentials are wrong
\* is answered without a token and leaves the store as it was.
C25_LoginVerifiedAndStored ==
  [][(Answered /\ resp'.op = "login")
     => /\ (resp'.newA # NoToken \/ resp'.newR # NoToken)
             => /\ \E p \in Procs : /\ procs[p].pc # "idle"
                                    /\ procs'[p].pc = "idle"
                                    /\ procs[p].cred
                /\ \/ \E i \in DOMAIN sessions' :
                        bcryptCompare(resp'.newR, sessions'[i].tokenHash)
                   \/ resp'.newR \in refreshTokens'
        /\ (\A p \in Procs : procs[p].pc # "idle" /\ procs'[p].pc = "idle"
                               => ~procs[p].cred)
             => /\ resp'.newA = NoToken /\ resp'.newR = NoToken
                /\ sessions' = sessions
                /\ refreshTokens' = refreshTokens]_vars

\* C26: for every user the number of active session records is at most the
\* number of successful logins of that user (each successful login has
\* inserted one row marked "login"; a refresh replaces one active row by
\* one).
C26_ActiveBoundedByLogins ==
  \A u \in users :
    Cardinality(ActiveOf(u)) <=
      Cardinality({i \in RowsOf(sessions, u) : sessions[i].via = "login"})

\* C27: a step of a request that runs for user U (payload.sub of the
\* refresh token, the identity of the guard for a logout) leaves every row
\* of every other user as it was, matches only a row of U and inserts only
\* rows of U; a step that starts a request changes no row.
C27_OtherUsersUntouched ==
  [][/\ \A p \in Procs :
          (procs[p].pc # "idle" /\ procs'[p] # procs[p])
          => /\ \A i \in DOMAIN sessions :
                  sessions[i].userId # procs[p].uid => sessions'[i] = sessions[i]
             /\ \A i \in DOMAIN sessions' \ DOMAIN sessions :
                  sessions'[i].userId = procs[p].uid
             /\ procs'[p].rec # NoRecord
                  => sessions[procs'[p].rec].userId = procs[p].uid
             /\ procs[p].op = "refresh" => procs[p].uid = procs[p].tok.sub
     /\ (\A p \in Procs : procs[p].pc = "idle" \/ procs'[p] = procs[p])
           => sessions' = sessions]_vars

\* A logout of one user with the refresh token of another was answered, and
\* the row of that token is still active.
C27_Witness ==
  /\ resp.op = "logout" /\ resp.res = "LoggedOut"
  /\ resp.tok.typ = "refresh"
  /\ resp.tok.sub # resp.uid
  /\ \E i \in ActiveOf(resp.tok.sub) : bcryptCompare(resp.tok, sessions[i].tokenHash)

\* C28: no step changes a session record that is not active: a row that is
\* revoked keeps its revokedAt, and a row that is expired and not revoked
\* stays as it is.
C28_OnlyActiveRowsChange ==
  [][\A i \in DOMAIN sessions :
       ~IsActive(sessions[i], now) => sessions'[i] = sessions[i]]_vars

\* C29: in the example, of the /refresh requests that present one token
\* string and arrive before any of them has returned, at most one returns a
\* new pair: a request that passed the membership check before a rotation
\* of its string returned does not return a pair after it.
C29_ExampleOneWinner ==
  [][\A p \in Procs :
       ( /\ procs[p].pc = "x_store"
         /\ procs'[p].pc = "idle"
         /\ ~procs[p].prior
         /\ procs[p].tok \in RotatedTokens )
       => resp'.res # "ok"]_vars

\* C30: a limiter built with {windowMs, max} passes on at most max requests
\* of a key between the creation of the key's record and its resetAt and
\* answers the others with 429; the X-RateLimit-Remaining it sends is never
\* negative; a request of one key leaves the record of every other key as
\* it was.
C30_LimiterBounds ==
  [][started' # started
     => /\ \A k \in Keys : hits'[k] <= limiter.max
        /\ lresp'.remaining >= 0
        /\ lresp'.status \in {200, 429}
        /\ ( /\ store[lresp'.key] # NoRate
             /\ now <= store[lresp'.key].resetAt
             /\ hits[lresp'.key] >= limiter.max )
             => lresp'.status = 429
        /\ \A k \in Keys \ {lresp'.key} :
             store'[k] = store[k] /\ hits'[k] = hits[k]]_vars

====
